---- MODULE Spec2Model ----
(***************************************************************************)
(* Model of categorize_arxiv.py: the two streaming scanners check_abstract *)
(* and check_document, the character generator they read from, and the     *)
(* categorize driver that calls them for every source folder and writes    *)
(* one report row per folder.                                              *)
(*                                                                         *)
(* A document is a sequence of one-character strings.  Offsets follow the  *)
(* Python code: d[k] in Python is d[k+1] here.                             *)
(***************************************************************************)
EXTENDS Integers, Sequences, FiniteSets, TLC

\* ------------------------------------------------------------------------
\* Literals of the scanners (categorize_arxiv.py lines 167-168, 251-252)

BeginAbstract ==
  <<"\\", "b", "e", "g", "i", "n", "{", "a", "b", "s", "t", "r", "a", "c", "t", "}">>

AbstractBrace ==
  <<"\\", "a", "b", "s", "t", "r", "a", "c", "t", "{">>

EndAbstract ==
  <<"\\", "e", "n", "d", "{", "a", "b", "s", "t", "r", "a", "c", "t", "}">>

BeginDocument ==
  <<"\\", "b", "e", "g", "i", "n", "{", "d", "o", "c", "u", "m", "e", "n", "t", "}">>

EndDocument ==
  <<"\\", "e", "n", "d", "{", "d", "o", "c", "u", "m", "e", "n", "t", "}">>

\* A copy-paste slip: check_document left with check_abstract's command list.
commands_Copied(fn) ==
  <<BeginAbstract, AbstractBrace>>

commands(fn) ==
  IF fn = "check_abstract" THEN <<BeginAbstract, AbstractBrace>>
                           ELSE <<BeginDocument>>

terminates(fn) ==
  IF fn = "check_abstract" THEN <<EndAbstract, <<"}">> >>
                           ELSE <<EndDocument>>

\* ------------------------------------------------------------------------
\* Documents the scanners are run on

MaxTokens == 3
MaxTex == 2
MaxFiles == 2

Tokens ==
  { BeginAbstract, AbstractBrace, EndAbstract, BeginDocument, EndDocument,
    <<"{">>, <<"}">> }

RECURSIVE DocsUpTo(_)
DocsUpTo(n) ==
  IF n = 0 THEN { <<>> }
  ELSE LET P == DocsUpTo(n - 1) IN P \cup { d \o t : d \in P, t \in Tokens }

HelloWorld ==
  <<"H", "e", "l", "l", "o", " ", "w", "o", "r", "l", "d">>

NestedBracesHere ==
  <<"N", "e", "s", "t", "e", "d", " ", "{", "b", "r", "a", "c", "e", "s", "}",
    " ", "h", "e", "r", "e", "}">>

NoCommandsHere ==
  <<"n", "o", " ", "c", "o", "m", "m", "a", "n", "d", "s", " ", "h", "e", "r", "e">>

Content ==
  <<"c", "o", "n", "t", "e", "n", "t">>

Example1 == BeginAbstract \o HelloWorld \o EndAbstract
Example2 == AbstractBrace \o NestedBracesHere
Example3 == NoCommandsHere
Example4 == BeginDocument \o Content \o EndDocument

Examples ==
  { Example1, Example2, Example3, Example4, BeginAbstract, AbstractBrace }

Docs == DocsUpTo(MaxTokens) \cup Examples

\* ------------------------------------------------------------------------
\* State

VARIABLES
  disk,          \* contents of the .tex files the source folders can hold
  pc,            \* position of categorize in its folder loop
  num_tex,       \* categorize: number of .tex entries of the current folder
  tex_contents,  \* categorize: text read from the .tex file
  abstract, abs_start, abs_end,   \* categorize: result of check_abstract
  doc, doc_start, doc_end,        \* categorize: result of check_document
  error,         \* categorize: the bare except was taken
  new_line,      \* the row handed to csv_writer.writerow for this folder
  frame,         \* locals of the most recent scanner invocation
  ret,           \* tuple returned by the most recent scanner invocation
  memo           \* observer: one remembered (function, document, result)

vars ==
  << disk, pc, num_tex, tex_contents, abstract, abs_start, abs_end,
     doc, doc_start, doc_end, error, new_line, frame, ret, memo >>

NoFrame == [fn |-> "none"]
NoRet == << >>
NoRow == [num_tex |-> -2]
NoMemo == [fn |-> "none"]
NoText == <<"?">>

\* ------------------------------------------------------------------------
\* The scanners

\* The brace of the command counted once at initialisation and once more
\* when its "{" goes through the counter.
Fresh_Counted(fn) ==
  IF fn = "check_abstract"
  THEN [ fn |-> fn, i |-> 0, char |-> "", word_seqs |-> << <<>>, <<>> >>,
         term_seq |-> <<>>, command_found |-> -1, nb_brackets |-> 1,
         abstract |-> FALSE, index |-> 0, start |-> -1, end |-> -1 ]
  ELSE [ fn |-> fn, i |-> 0, char |-> "", word_seq |-> <<>>,
         term_seq |-> <<>>, doc |-> FALSE, index |-> 0, start |-> -1, end |-> -1 ]

\* Lines 162-177 / 246-259: the values the locals are given at the top of
\* the function body, with a new char_gen (i = 0).
Fresh(fn) ==
  IF fn = "check_abstract"
  THEN [ fn |-> fn, i |-> 0, char |-> "", word_seqs |-> << <<>>, <<>> >>,
         term_seq |-> <<>>, command_found |-> -1, nb_brackets |-> 0,
         abstract |-> FALSE, index |-> 0, start |-> -1, end |-> -1 ]
  ELSE [ fn |-> fn, i |-> 0, char |-> "", word_seq |-> <<>>,
         term_seq |-> <<>>, doc |-> FALSE, index |-> 0, start |-> -1, end |-> -1 ]

\* The running index held outside the function body and never reset.
Locals_Kept(fn) ==
  [ Fresh(fn) EXCEPT !.index = IF frame = NoFrame THEN 0 ELSE frame.index ]

\* Lines 152 / 236: the locals an invocation starts with.
Locals(fn) == Fresh(fn)

\* The generator stops one character short of the end.
Exhausted_Early(f, d) == ~(f.i < Len(d) - 1)

\* char_gen, line 146: the generator is exhausted once i > len - 1.
Exhausted(f, d) == ~(f.i <= Len(d) - 1)

\* Line 185 / 267 returning the scanner's current variables.
StopIteration_Current(found, start, end) == << found, start, end >>

\* Lines 184-185 / 266-267: the value returned at end-of-stream.
StopIteration(found, start, end) == << FALSE, -1, -1 >>

\* list.index: position (from 0) of the first element equal to x.
ListIndex(list, x) ==
  CHOOSE k \in 0 .. Len(list) - 1 :
    /\ list[k + 1] = x
    /\ \A j \in 0 .. k - 1 : list[j + 1] # x

\* The window grows without ever dropping its oldest character.
Slide_NoPop(seq, char, window_size) == Append(seq, char)

\* Lines 196-198 / 210-214 / 274-278 / 288-292: append, then drop the oldest
\* character when the window is over its size.
Slide(seq, char, window_size) ==
  LET s == Append(seq, char)
  IN IF Len(s) > window_size THEN Tail(s) ELSE s

\* start computed one character late.
StartOf_Late(index, window_size) == index - window_size + 1

\* Lines 202 / 282.
StartOf(index, window_size) == index - window_size

\* end taken as the 0-based position of the character just consumed.
EndOf_ZeroBased(index) == index - 1

\* Lines 217 / 231 / 295.
EndOf(index) == index

\* The search is not switched off once a command is armed.
Searching_Always(found) == TRUE

\* Lines 188 / 270.
Searching(found) == found = FALSE

\* The first closing brace ends the abstract, whatever the nesting.
CountBrackets_Naive(nb_brackets, char) ==
  IF char = "}" THEN 0
  ELSE IF char = "{" THEN nb_brackets + 1 ELSE nb_brackets

\* Lines 224-227.
CountBrackets(nb_brackets, char) ==
  LET n == IF char = "{" THEN nb_brackets + 1 ELSE nb_brackets
  IN IF char = "}" THEN n - 1 ELSE n

\* The bracket opened by the command is taken as already closed.
Closed_Early(nb_brackets) == nb_brackets <= 1

\* Line 229.
Closed(nb_brackets) == nb_brackets <= 0

\* Lines 190-203: one pass of the for loop body, for the k-th window.
SearchBody(f, k) ==
  LET word_seq == f.word_seqs[k + 1]
      seq_index == ListIndex(f.word_seqs, word_seq)
      window_size == Len(commands(f.fn)[seq_index + 1])
      slid == Slide(word_seq, f.char, window_size)
      g == [f EXCEPT !.word_seqs[k + 1] = slid]
  IN IF slid = commands(f.fn)[seq_index + 1]
     THEN [g EXCEPT !.abstract = TRUE,
                    !.start = StartOf(f.index, window_size),
                    !.command_found = seq_index]
     ELSE g

\* Lines 188-203.
SearchLoop(f) ==
  IF Searching(f.abstract) THEN SearchBody(SearchBody(f, 0), 1) ELSE f

\* Lines 206-232: the termination part of one iteration of check_abstract.
AbstractTerminate(f) ==
  IF f.abstract = TRUE
  THEN IF f.command_found = 0
       THEN LET t == Slide(f.term_seq, f.char, Len(terminates(f.fn)[1]))
                g == [f EXCEPT !.term_seq = t]
            IN IF t = terminates(f.fn)[1]
               THEN [ f |-> [g EXCEPT !.end = EndOf(f.index)], returned |-> TRUE,
                      value |-> << f.abstract, f.start, EndOf(f.index) >> ]
               ELSE [ f |-> g, returned |-> FALSE, value |-> NoRet ]
       ELSE IF f.command_found = 1
       THEN LET n == CountBrackets(f.nb_brackets, f.char)
                g == [f EXCEPT !.nb_brackets = n]
            IN IF Closed(n)
               THEN [ f |-> [g EXCEPT !.end = EndOf(f.index)], returned |-> TRUE,
                      value |-> << f.abstract, f.start, EndOf(f.index) >> ]
               ELSE [ f |-> g, returned |-> FALSE, value |-> NoRet ]
       ELSE [ f |-> f, returned |-> FALSE, value |-> NoRet ]
  ELSE [ f |-> f, returned |-> FALSE, value |-> NoRet ]

\* Lines 179-232: one iteration of the while loop of check_abstract on d.
AbstractIteration(f, d) ==
  IF Exhausted(f, d)
  THEN [ f |-> f, returned |-> TRUE,
         value |-> StopIteration(f.abstract, f.start, f.end) ]
  ELSE LET g == [f EXCEPT !.char = d[f.i + 1], !.i = f.i + 1,
                          !.index = f.index + 1]
       IN AbstractTerminate(SearchLoop(g))

\* Lines 270-282.
DocumentSearch(f) ==
  IF Searching(f.doc)
  THEN LET window_size == Len(commands(f.fn)[1])
           slid == Slide(f.word_seq, f.char, window_size)
           g == [f EXCEPT !.word_seq = slid]
       IN IF slid = commands(f.fn)[1]
          THEN [g EXCEPT !.doc = TRUE, !.start = StartOf(f.index, window_size)]
          ELSE g
  ELSE f

\* Lines 285-296.
DocumentTerminate(f) ==
  IF f.doc = TRUE
  THEN LET t == Slide(f.term_seq, f.char, Len(terminates(f.fn)[1]))
           g == [f EXCEPT !.term_seq = t]
       IN IF t = terminates(f.fn)[1]
          THEN [ f |-> [g EXCEPT !.end = EndOf(f.index)], returned |-> TRUE,
                 value |-> << f.doc, f.start, EndOf(f.index) >> ]
          ELSE [ f |-> g, returned |-> FALSE, value |-> NoRet ]
  ELSE [ f |-> f, returned |-> FALSE, value |-> NoRet ]

\* Lines 261-296: one iteration of the while loop of check_document on d.
DocumentIteration(f, d) ==
  IF Exhausted(f, d)
  THEN [ f |-> f, returned |-> TRUE,
         value |-> StopIteration(f.doc, f.start, f.end) ]
  ELSE LET g == [f EXCEPT !.char = d[f.i + 1], !.i = f.i + 1,
                          !.index = f.index + 1]
       IN DocumentTerminate(DocumentSearch(g))

\* ------------------------------------------------------------------------
\* categorize

\* The scans run for every folder that has at least one .tex file.
ScanGuard_AtLeastOne(n) == n >= 1

\* Line 376.
ScanGuard(n) == n = 1

\* The observer's remembered result is no longer that of the latest call;
\* other records whether a different text has been scanned since.
Aged(m, d) ==
  IF m = NoMemo THEN m
  ELSE [m EXCEPT !.fresh = FALSE, !.other = m.other \/ d # m.doc]

\* Lines 351-376: the next folder; the row variables are re-initialised and
\* the .tex entries counted.
StartFolder ==
  /\ pc = "folder"
  /\ \E n \in 0 .. MaxTex :
       /\ num_tex' = n
       /\ pc' = IF ScanGuard(n) THEN "open" ELSE "writerow"
  /\ abstract' = FALSE /\ abs_start' = -1 /\ abs_end' = -1
  /\ doc' = FALSE /\ doc_start' = -1 /\ doc_end' = -1
  /\ error' = FALSE
  /\ new_line' = NoRow
  /\ UNCHANGED << disk, tex_contents, frame, ret, memo >>

\* Lines 383-384, 387-388: open or read raises; the bare except sets error.
OpenFail ==
  /\ pc = "open"
  /\ error' = TRUE
  /\ pc' = "writerow"
  /\ UNCHANGED << disk, num_tex, tex_contents, abstract, abs_start, abs_end,
                  doc, doc_start, doc_end, new_line, frame, ret, memo >>

\* Lines 383-385: the file is read and check_abstract is called on it.
OpenRead ==
  /\ pc = "open"
  /\ \E d \in disk : tex_contents' = d /\ memo' = Aged(memo, d)
  /\ frame' = Locals("check_abstract")
  /\ pc' = "check_abstract"
  /\ UNCHANGED << disk, num_tex, abstract, abs_start, abs_end,
                  doc, doc_start, doc_end, error, new_line, ret >>

\* Lines 179-232: one loop iteration of check_abstract.
CheckAbstractStep ==
  /\ pc = "check_abstract"
  /\ LET r == AbstractIteration(frame, tex_contents)
     IN /\ frame' = r.f
        /\ ret' = IF r.returned THEN r.value ELSE ret
        /\ pc' = IF r.returned THEN "abstract_ret" ELSE pc
  /\ UNCHANGED << disk, num_tex, tex_contents, abstract, abs_start, abs_end,
                  doc, doc_start, doc_end, error, new_line, memo >>

\* Lines 385-386: the result of check_abstract is stored and check_document
\* is called on the same text.
CallCheckDocument ==
  /\ pc = "abstract_ret"
  /\ abstract' = ret[1] /\ abs_start' = ret[2] /\ abs_end' = ret[3]
  /\ frame' = Locals("check_document")
  /\ pc' = "check_document"
  /\ memo' = Aged(memo, tex_contents)
  /\ UNCHANGED << disk, num_tex, tex_contents, doc, doc_start, doc_end,
                  error, new_line, ret >>

\* Lines 261-296: one loop iteration of check_document.
CheckDocumentStep ==
  /\ pc = "check_document"
  /\ LET r == DocumentIteration(frame, tex_contents)
     IN /\ frame' = r.f
        /\ ret' = IF r.returned THEN r.value ELSE ret
        /\ pc' = IF r.returned THEN "document_ret" ELSE pc
  /\ UNCHANGED << disk, num_tex, tex_contents, abstract, abs_start, abs_end,
                  doc, doc_start, doc_end, error, new_line, memo >>

\* Lines 386, 390: the result of check_document is stored.
StoreDocument ==
  /\ pc = "document_ret"
  /\ doc' = ret[1] /\ doc_start' = ret[2] /\ doc_end' = ret[3]
  /\ pc' = "writerow"
  /\ UNCHANGED << disk, num_tex, tex_contents, abstract, abs_start, abs_end,
                  error, new_line, frame, ret, memo >>

\* Lines 392-405: the row is written.  (The pdf check of lines 396-399 cannot
\* set error: a file opened with 'rb' is readable.)
WriteRow ==
  /\ pc = "writerow"
  /\ new_line' = [ num_tex |-> num_tex, abstract |-> abstract,
                   abs_start |-> abs_start, abs_end |-> abs_end,
                   doc |-> doc, doc_start |-> doc_start, doc_end |-> doc_end,
                   error |-> error ]
  /\ pc' = "folder"
  /\ UNCHANGED << disk, num_tex, tex_contents, abstract, abs_start, abs_end,
                  doc, doc_start, doc_end, error, frame, ret, memo >>

\* Observer: remember the result a scan has just returned.
Remember ==
  /\ pc \in {"abstract_ret", "document_ret"}
  /\ memo = NoMemo
  /\ memo' = [ fn |-> frame.fn, doc |-> tex_contents, ret |-> ret, fresh |-> TRUE,
               other |-> FALSE ]
  /\ UNCHANGED << disk, pc, num_tex, tex_contents, abstract, abs_start, abs_end,
                  doc, doc_start, doc_end, error, new_line, frame, ret >>

\* ------------------------------------------------------------------------
\* Specifications

\* State after lines 318-344, before the first folder.
Start ==
  /\ pc = "folder"
  /\ num_tex = -1
  /\ tex_contents = NoText
  /\ abstract = FALSE /\ abs_start = -1 /\ abs_end = -1
  /\ doc = FALSE /\ doc_start = -1 /\ doc_end = -1
  /\ error = FALSE
  /\ new_line = NoRow
  /\ frame = NoFrame
  /\ ret = NoRet
  /\ memo = NoMemo

\* One text, any document of the bounded set.
Init ==
  /\ disk \in { {d} : d \in Docs }
  /\ Start

Next ==
  \/ StartFolder
  \/ OpenFail
  \/ OpenRead
  \/ CheckAbstractStep
  \/ CallCheckDocument
  \/ CheckDocumentStep
  \/ StoreDocument
  \/ WriteRow

Spec == Init /\ [][Next]_vars

\* categorize runs on one thread and nothing in a scanner's loop waits: a
\* loop iteration that can run does run.  The texts are those of one token
\* less than in Init, and the examples.
InitLive ==
  /\ disk \in { {d} : d \in DocsUpTo(MaxTokens - 1) \cup Examples }
  /\ Start

SpecLive ==
  /\ InitLive
  /\ [][Next]_vars
  /\ WF_vars(CheckAbstractStep)
  /\ WF_vars(CheckDocumentStep)

\* Up to MaxFiles different texts, scanned again and again in any order,
\* with the observer comparing a remembered result with later ones.
InitRepeat ==
  /\ disk \in { S \in SUBSET Examples : Cardinality(S) >= 1 /\ Cardinality(S) <= MaxFiles }
  /\ Start

NextRepeat ==
  \/ StartFolder
  \/ OpenFail
  \/ OpenRead
  \/ CheckAbstractStep
  \/ CallCheckDocument
  \/ CheckDocumentStep
  \/ StoreDocument
  \/ WriteRow
  \/ Remember

SpecRepeat == InitRepeat /\ [][NextRepeat]_vars

\* ------------------------------------------------------------------------
\* What a document contains, stated on the text alone (offsets from 0)

Occurs(lit, d, k) ==
  /\ k >= 0
  /\ k + Len(lit) <= Len(d)
  /\ SubSeq(d, k + 1, k + Len(lit)) = lit

Positions(lit, d) == { k \in 0 .. Len(d) - Len(lit) : Occurs(lit, d, k) }

Min(S) == CHOOSE x \in S : \A y \in S : x <= y

\* Offsets at which an opening literal of check_abstract starts.
AbstractOpenings(d) == Positions(BeginAbstract, d) \cup Positions(AbstractBrace, d)

\* Offsets of the first character of a closing keyword that lies after the
\* opening literal starting at s.
KeywordClosers(d, s, opening, closing) ==
  { e \in Positions(closing, d) : e >= s + Len(opening) }

\* Number of "{" minus number of "}" in d[a..j].
Depth(d, a, j) ==
  Cardinality({ k \in a .. j : d[k + 1] = "{" })
    - Cardinality({ k \in a .. j : d[k + 1] = "}" })

\* Offsets after \abstract{ (starting at p) where the brace it opens is closed.
BraceClosers(d, p) ==
  { j \in p + Len(AbstractBrace) .. Len(d) - 1 :
      Depth(d, p + Len(AbstractBrace) - 1, j) <= 0 }

\* What check_abstract has to return for d, read off the text: the earliest
\* opening literal decides the strategy, end is the number of characters up
\* to and including the terminating "}".
AbstractExpected(d) ==
  IF AbstractOpenings(d) = {} THEN << FALSE, -1, -1 >>
  ELSE LET s == Min(AbstractOpenings(d))
       IN IF Occurs(BeginAbstract, d, s)
          THEN LET E == KeywordClosers(d, s, BeginAbstract, EndAbstract)
               IN IF E = {} THEN << FALSE, -1, -1 >>
                  ELSE << TRUE, s, Min(E) + Len(EndAbstract) >>
          ELSE LET J == BraceClosers(d, s)
               IN IF J = {} THEN << FALSE, -1, -1 >>
                  ELSE << TRUE, s, Min(J) + 1 >>

DocumentExpected(d) ==
  IF Positions(BeginDocument, d) = {} THEN << FALSE, -1, -1 >>
  ELSE LET s == Min(Positions(BeginDocument, d))
           E == KeywordClosers(d, s, BeginDocument, EndDocument)
       IN IF E = {} THEN << FALSE, -1, -1 >>
          ELSE << TRUE, s, Min(E) + Len(EndDocument) >>

AbstractReturned == pc = "abstract_ret"
DocumentReturned == pc = "document_ret"
Returned == AbstractReturned \/ DocumentReturned

\* ------------------------------------------------------------------------
\* C1: the triple returned by check_abstract and by check_document is
\* (false, -1, -1) when found is false, and has 0 <= start < end <= length
\* of the document when found is true.
C1_ResultShape ==
  Returned =>
    /\ ret[1] = FALSE => (ret[2] = -1 /\ ret[3] = -1)
    /\ ret[1] = TRUE => (0 <= ret[2] /\ ret[2] < ret[3] /\ ret[3] <= Len(tex_contents))

\* check_document has found its command in a text where check_abstract had
\* found none: both shapes of the triple have been returned.
C1_Witness ==
  /\ DocumentReturned
  /\ ret[1] = TRUE
  /\ abstract = FALSE
  /\ ret[2] > 0

\* C2: a document with no occurrence of an opening literal gives
\* (false, -1, -1), returned as a value (the except branch is not taken).
C2_NoOpening ==
  /\ (AbstractReturned /\ AbstractOpenings(tex_contents) = {})
       => (ret = << FALSE, -1, -1 >> /\ error = FALSE)
  /\ (DocumentReturned /\ Positions(BeginDocument, tex_contents) = {})
       => (ret = << FALSE, -1, -1 >> /\ error = FALSE)

\* check_document returns on a text that has an abstract but no
\* \begin{document}.
C2_Witness ==
  /\ DocumentReturned
  /\ Positions(BeginDocument, tex_contents) = {}
  /\ Positions(EndDocument, tex_contents) # {}
  /\ abstract = TRUE

\* C3: when the first opening literal occurs but its terminator (closing
\* keyword, or brace balance back to zero) never follows, the scan returns
\* (false, -1, -1); a document equal to an opening literal returns
\* found = false.
C3_Unterminated ==
  /\ AbstractReturned =>
       LET d == tex_contents
       IN /\ (/\ AbstractOpenings(d) # {}
              /\ LET s == Min(AbstractOpenings(d))
                 IN IF Occurs(BeginAbstract, d, s)
                    THEN KeywordClosers(d, s, BeginAbstract, EndAbstract) = {}
                    ELSE BraceClosers(d, s) = {})
               => ret = << FALSE, -1, -1 >>
          /\ d \in {BeginAbstract, AbstractBrace} => ret[1] = FALSE
  /\ DocumentReturned =>
       LET d == tex_contents
       IN /\ (/\ Positions(BeginDocument, d) # {}
              /\ KeywordClosers(d, Min(Positions(BeginDocument, d)),
                                BeginDocument, EndDocument) = {})
               => ret = << FALSE, -1, -1 >>
          /\ d = BeginDocument => ret[1] = FALSE

\* check_abstract reaches end-of-stream in brace mode with the brace still
\* open, the start offset already computed.
C3_Witness ==
  /\ AbstractReturned
  /\ frame.abstract = TRUE
  /\ frame.command_found = 1
  /\ frame.start > 0
  /\ frame.nb_brackets >= 2
  /\ ret = << FALSE, -1, -1 >>

\* Pairs (s, e): \begin{abstract} starts at s, \end{abstract} starts at e
\* after it, and no \begin{abstract} starts in between.
AbstractEnvironments(d) ==
  { se \in Positions(BeginAbstract, d) \X Positions(EndAbstract, d) :
      /\ se[2] >= se[1] + Len(BeginAbstract)
      /\ \A p \in Positions(BeginAbstract, d) : ~(se[1] < p /\ p < se[2]) }

\* Pairs (p, q): \abstract{ starts at p and q is the offset of the "}" that
\* closes the brace it opens.
AbstractGroups(d) ==
  { pq \in Positions(AbstractBrace, d) \X (0 .. Len(d) - 1) :
      /\ BraceClosers(d, pq[1]) # {}
      /\ pq[2] = Min(BraceClosers(d, pq[1])) }

\* C4 as stated: whatever else the document contains, a document with
\* \begin{abstract}...\end{abstract} (no nested \begin{abstract}) gives
\* found = true, start at the "\" of \begin{abstract} and end at the closing
\* "}" of \end{abstract} (in either offset convention).
C4_AsStated ==
  (AbstractReturned /\ AbstractEnvironments(tex_contents) # {}) =>
    \E se \in AbstractEnvironments(tex_contents) :
      /\ ret[1] = TRUE
      /\ ret[2] = se[1]
      /\ ret[3] \in { se[2] + Len(EndAbstract) - 1, se[2] + Len(EndAbstract) }

\* C4, amended: when the earliest opening literal of the document is
\* \begin{abstract} (no \abstract{ before it) and \end{abstract} follows it,
\* check_abstract returns found = true, start = the offset of the "\" of that
\* \begin{abstract}, end = 1 + the offset of the closing "}" of the first
\* \end{abstract} after it.
C4_KeywordFound ==
  AbstractReturned =>
    LET d == tex_contents
    IN (/\ AbstractOpenings(d) # {}
        /\ Occurs(BeginAbstract, d, Min(AbstractOpenings(d)))
        /\ KeywordClosers(d, Min(AbstractOpenings(d)), BeginAbstract, EndAbstract) # {})
       => LET s == Min(AbstractOpenings(d))
              e == Min(KeywordClosers(d, s, BeginAbstract, EndAbstract))
          IN ret = << TRUE, s, (e + Len(EndAbstract) - 1) + 1 >>

\* A keyword-terminated abstract found in a document where \abstract{
\* occurs too, after the \begin{abstract}.
C4_Witness ==
  /\ AbstractReturned
  /\ frame.command_found = 0
  /\ ret[1] = TRUE
  /\ Positions(AbstractBrace, tex_contents) # {}

\* C5 as stated: every document with a balanced \abstract{...} gives
\* found = true with end at the "}" that closes it (in either offset
\* convention).
C5_AsStated ==
  (AbstractReturned /\ AbstractGroups(tex_contents) # {}) =>
    \E pq \in AbstractGroups(tex_contents) :
      /\ ret[1] = TRUE
      /\ ret[3] \in { pq[2], pq[2] + 1 }

\* C5, amended: when the earliest opening literal of the document is
\* \abstract{ and the brace it opens is closed later, check_abstract returns
\* found = true, start = the offset of its "\", and end = 1 + the offset of
\* the first "}" that brings the balance back to zero; no "}" before it
\* that leaves the balance positive ends the scan.
C5_BraceFound ==
  AbstractReturned =>
    LET d == tex_contents
    IN (/\ AbstractOpenings(d) # {}
        /\ Occurs(AbstractBrace, d, Min(AbstractOpenings(d)))
        /\ BraceClosers(d, Min(AbstractOpenings(d))) # {})
       => LET p == Min(AbstractOpenings(d))
              q == Min(BraceClosers(d, p))
          IN /\ ret = << TRUE, p, q + 1 >>
             /\ d[q + 1] = "}"
             /\ Depth(d, p + Len(AbstractBrace) - 1, q) = 0
             /\ \A j \in p + Len(AbstractBrace) .. q - 1 :
                  Depth(d, p + Len(AbstractBrace) - 1, j) > 0

\* A brace-terminated abstract with an inner "}" before the closing one.
C5_Witness ==
  /\ AbstractReturned
  /\ frame.command_found = 1
  /\ ret[1] = TRUE
  /\ \E j \in ret[2] + Len(AbstractBrace) .. ret[3] - 2 : tex_contents[j + 1] = "}"

\* C6: the opening literal that occurs earliest in the document is the one
\* armed (as soon as its last character is consumed, and not before), its
\* strategy decides the result, and a found result starts at the smallest
\* offset of any opening literal.
C6_FirstMatchWins ==
  frame.fn = "check_abstract" =>
    LET d == tex_contents
        O == AbstractOpenings(d)
        first == Min(O)
        kind == IF Occurs(BeginAbstract, d, first) THEN 0 ELSE 1
        size == IF kind = 0 THEN Len(BeginAbstract) ELSE Len(AbstractBrace)
    IN /\ frame.abstract = TRUE <=> (O # {} /\ first + size <= frame.index)
       /\ frame.abstract = TRUE =>
            (frame.command_found = kind /\ frame.start = first)
       /\ frame.abstract = FALSE =>
            (frame.command_found = -1 /\ frame.start = -1)
       /\ AbstractReturned =>
            /\ ret = AbstractExpected(d)
            /\ ret[1] = TRUE => ret[2] = first

\* \abstract{ comes first and is armed; \begin{abstract} occurs later in the
\* document and the brace balance still decides the end.
C6_Witness ==
  /\ AbstractReturned
  /\ ret[1] = TRUE
  /\ frame.command_found = 1
  /\ Positions(BeginAbstract, tex_contents) # {}
  /\ Min(Positions(BeginAbstract, tex_contents)) < ret[3]

\* C7 as stated: for a found result, start is the offset of the first
\* character of the opening literal and end is, in the same 0-based
\* convention, the offset of the closing "}" (document[end] is that "}");
\* check_document on Example4 returns (true, 0, 36) and check_abstract on
\* Example2 returns found = true with end = 30.
C7_AsStated ==
  Returned =>
    LET d == tex_contents
        expected == IF AbstractReturned THEN AbstractExpected(d)
                                        ELSE DocumentExpected(d)
    IN /\ ret[1] = TRUE =>
            /\ ret[2] = expected[2]
            /\ ret[3] = expected[3] - 1
            /\ ret[3] + 1 <= Len(d)
            /\ d[ret[3] + 1] = "}"
       /\ (DocumentReturned /\ d = Example4) => ret = << TRUE, 0, 36 >>
       /\ (AbstractReturned /\ d = Example2) => (ret[1] = TRUE /\ ret[3] = 30)

\* C7, amended: for a found result, start is the 0-based offset of the
\* first character of the opening literal and end is one more than the
\* 0-based offset of the closing "}" of the terminating construct
\* (document[end - 1] is that "}", end = number of characters consumed);
\* check_document on Example4 returns (true, 0, 37) and check_abstract on
\* Example2 returns (true, 0, 31), the final "}" being at offset 30 and the
\* inner one at offset 24.
C7_EndIsOnePast ==
  Returned =>
    LET d == tex_contents
        expected == IF AbstractReturned THEN AbstractExpected(d)
                                        ELSE DocumentExpected(d)
    IN /\ ret[1] = TRUE =>
            /\ ret[2] = expected[2]
            /\ d[ret[2] + 1] = "\\"
            /\ ret[3] - 1 = expected[3] - 1
            /\ d[(ret[3] - 1) + 1] = "}"
            /\ ret[3] = frame.index
       /\ (DocumentReturned /\ d = Example4) => ret = << TRUE, 0, 37 >>
       /\ (AbstractReturned /\ d = Example2) =>
            (ret = << TRUE, 0, 31 >> /\ d[30 + 1] = "}" /\ d[24 + 1] = "}")

\* check_document has returned a found result on Example4.
C7_Witness ==
  /\ DocumentReturned
  /\ tex_contents = Example4
  /\ ret[1] = TRUE
  /\ frame.i = Len(Example4)

\* C8: check_abstract on the 41 characters of Example1 returns (true, 0, 41).
C8_Example1 ==
  (AbstractReturned /\ tex_contents = Example1) =>
    (Len(tex_contents) = 41 /\ ret = << TRUE, 0, 41 >>)

\* check_abstract has returned on Example1 after consuming all of it.
C8_Witness ==
  /\ AbstractReturned
  /\ tex_contents = Example1
  /\ frame.i = 41
  /\ ret[1] = TRUE

\* C9: a scan of a document returns what an earlier scan of the same
\* document by the same function returned, whatever was scanned in between,
\* and every invocation starts from the initial locals: nothing of an
\* earlier invocation is left in them.
C9_SameResult ==
  /\ (Returned /\ memo # NoMemo /\ memo.fn = frame.fn /\ memo.doc = tex_contents)
       => ret = memo.ret
  /\ (pc \in {"check_abstract", "check_document"} /\ frame.i = 0)
       => frame = Fresh(frame.fn)

\* A found result returned again for a remembered document, after a scan of
\* another document and of the other function in between.
C9_Witness ==
  /\ Returned
  /\ memo # NoMemo
  /\ memo.fn = frame.fn
  /\ memo.doc = tex_contents
  /\ memo.fresh = FALSE
  /\ memo.other = TRUE
  /\ ret[1] = TRUE

\* C10: the scans run only for a folder with exactly one .tex file; a row
\* for any other count, or for a failed read, has abstract = doc = False and
\* the four offsets -1; in every row a False flag comes with offsets -1.
C10_Rows ==
  /\ pc \in {"open", "check_abstract", "abstract_ret", "check_document", "document_ret"}
       => num_tex = 1
  /\ new_line # NoRow =>
       /\ (new_line.num_tex # 1 \/ new_line.error = TRUE) =>
            /\ new_line.abstract = FALSE /\ new_line.doc = FALSE
            /\ new_line.abs_start = -1 /\ new_line.abs_end = -1
            /\ new_line.doc_start = -1 /\ new_line.doc_end = -1
       /\ new_line.abstract = FALSE =>
            (new_line.abs_start = -1 /\ new_line.abs_end = -1)
       /\ new_line.doc = FALSE =>
            (new_line.doc_start = -1 /\ new_line.doc_end = -1)

\* A row written for a folder with two .tex files, after an earlier folder
\* whose scan had found its command.
C10_Witness ==
  /\ new_line # NoRow
  /\ new_line.num_tex = 2
  /\ new_line.abstract = FALSE
  /\ ret # NoRet
  /\ ret[1] = TRUE

\* ------------------------------------------------------------------------
\* What the termination phase has been fed, stated on the text

Scanning(f) == f.fn \in {"check_abstract", "check_document"}

\* The scan of frame f has armed an opening literal.
Armed(f) == IF f.fn = "check_abstract" THEN f.abstract = TRUE ELSE f.doc = TRUE

\* Length of the opening literal frame f has armed.
ArmedSize(f) ==
  IF f.fn = "check_abstract" /\ f.command_found = 1 THEN Len(AbstractBrace)
  ELSE IF f.fn = "check_abstract" THEN Len(BeginAbstract)
  ELSE Len(BeginDocument)

\* Frame f terminates on a closing keyword (not on the brace balance).
KeywordMode(f) == f.fn = "check_document" \/ f.command_found = 0

ClosingKeyword(f) == IF f.fn = "check_abstract" THEN EndAbstract ELSE EndDocument

\* The last n elements of seq (all of it when it is shorter).
LastN(seq, n) ==
  IF Len(seq) <= n THEN seq ELSE SubSeq(seq, Len(seq) - n + 1, Len(seq))

\* The characters d[a .. b-1] (offsets from 0).
Slice(d, a, b) == SubSeq(d, a + 1, b)

\* C11 as stated: the termination strategy consumes from the character after
\* the armed opening literal: the closing-keyword window holds only
\* characters after the literal, and the brace counter counts only braces
\* after it.
C11_AsStated ==
  (Scanning(frame) /\ Armed(frame)) =>
    LET d == tex_contents
        after == frame.start + ArmedSize(frame)
    IN IF KeywordMode(frame)
       THEN frame.term_seq =
              LastN(Slice(d, after, frame.index), Len(ClosingKeyword(frame)))
       ELSE frame.nb_brackets = Depth(d, after, frame.index - 1)

\* C11, amended: the termination strategy consumes from the last character
\* of the armed opening literal, in the iteration that arms it: the final
\* "}" of \begin{abstract} or \begin{document} is the first character pushed
\* into the closing-keyword window, and the "{" of \abstract{ is the first
\* brace counted (it is what makes nb_brackets 1); no earlier character of
\* the opening literal is pushed or counted.
C11_FromLastOpeningChar ==
  (Scanning(frame) /\ Armed(frame)) =>
    LET d == tex_contents
        last == frame.start + ArmedSize(frame) - 1
    IN IF KeywordMode(frame)
       THEN frame.term_seq =
              LastN(Slice(d, last, frame.index), Len(ClosingKeyword(frame)))
       ELSE frame.nb_brackets = Depth(d, last, frame.index - 1)

\* The iteration that armed \begin{abstract} has just ended: the window of
\* the closing keyword holds the "}" of the opening literal.
C11_Witness ==
  /\ pc = "check_abstract"
  /\ frame.abstract = TRUE
  /\ frame.command_found = 0
  /\ frame.start > 0
  /\ frame.index = frame.start + Len(BeginAbstract)
  /\ frame.term_seq = << "}" >>

\* The opening windows of frame f.
Windows(f) == IF f.fn = "check_abstract" THEN f.word_seqs ELSE << f.word_seq >>

\* The pattern frame f has armed, as its position in the command list.
ArmedPattern(f) == IF f.fn = "check_abstract" THEN f.command_found ELSE 0

\* The step from frame f to frame g consumes one character of the same scan.
ConsumesChar(f, g) == Scanning(f) /\ g.fn = f.fn /\ g.i = f.i + 1

\* C12: in the step where an opening window first equals its literal, start
\* becomes (number of characters consumed so far) - window_size; in every
\* later step that consumes a character, start, the armed pattern and all
\* opening windows are left as they are, also when another opening literal
\* goes by.
C12_FrozenOnceArmed ==
  [][ ConsumesChar(frame, frame') =>
        /\ (~Armed(frame) /\ Armed(frame')) =>
             /\ frame'.index = frame'.i
             /\ frame'.start = frame'.index - ArmedSize(frame')
             /\ Windows(frame')[ArmedPattern(frame') + 1]
                  = commands(frame'.fn)[ArmedPattern(frame') + 1]
        /\ Armed(frame) =>
             /\ Armed(frame')
             /\ frame'.start = frame.start
             /\ ArmedPattern(frame') = ArmedPattern(frame)
             /\ Windows(frame') = Windows(frame)
    ]_vars

\* check_abstract is armed and another opening literal has been consumed
\* whole since then.
C12_Witness ==
  /\ pc = "check_abstract"
  /\ frame.abstract = TRUE
  /\ \E p \in AbstractOpenings(tex_contents) :
       /\ p > frame.start
       /\ p + Len(BeginAbstract) <= frame.index

\* The two windows of check_abstract are fed the same character in each
\* iteration, and the two opening literals end in different characters
\* ("}" and "{"): the windows never equal their literals together, so the
\* for loop of lines 190-203 never arms two patterns in one iteration.
OpeningsNeverTie ==
  frame.fn = "check_abstract" =>
    ~(/\ frame.word_seqs[1] = BeginAbstract
      /\ frame.word_seqs[2] = AbstractBrace)

\* The scan of frame f is in its loop (pc values of the two scanners).
InLoop == pc \in {"check_abstract", "check_document"}

\* In every state of a scan the running index is the number of characters
\* taken from the generator, those are the first characters of the text in
\* order, and char is the last of them.
IndexCountsConsumed ==
  Scanning(frame) =>
    /\ frame.index = frame.i
    /\ 0 <= frame.i /\ frame.i <= Len(tex_contents)
    /\ frame.i > 0 => frame.char = tex_contents[frame.i]

\* One loop iteration: it takes exactly the next character, or it finds the
\* generator exhausted after Len(text) characters and returns
\* (False, -1, -1); an iteration that took a character returns only a found
\* result.
OneCharPerIteration ==
  InLoop =>
    \/ /\ frame'.i = frame.i + 1
       /\ frame'.char = tex_contents[frame.i + 1]
       /\ pc' # pc => (ret'[1] = TRUE /\ ret'[3] = frame'.i)
    \/ /\ frame' = frame
       /\ frame.i = Len(tex_contents)
       /\ pc' # pc
       /\ ret' = << FALSE, -1, -1 >>

\* C14: every scan terminates; each iteration consumes exactly one
\* character, left to right and once each, the running index is the number
\* of characters consumed, and the scan ends by returning a found result or
\* at end-of-stream after exactly Len(document) characters.
C14_ScanTerminates ==
  /\ []IndexCountsConsumed
  /\ [][OneCharPerIteration]_vars
  /\ (pc = "check_abstract") ~> (pc = "abstract_ret")
  /\ (pc = "check_document") ~> (pc = "document_ret")

\* check_abstract has run to end-of-stream on a text with an armed,
\* unterminated command: all Len(text) characters were consumed.
C14_Witness ==
  /\ AbstractReturned
  /\ frame.abstract = TRUE
  /\ frame.i = Len(tex_contents)
  /\ frame.i > Len(BeginAbstract)
  /\ ret = << FALSE, -1, -1 >>

\* check_abstract has armed `\abstract{` and its frame is the current one.
BraceMode ==
  /\ pc \in {"check_abstract", "abstract_ret"}
  /\ frame.fn = "check_abstract"
  /\ frame.abstract = TRUE
  /\ frame.command_found = 1

\* C15: once `\abstract{` is armed, nb_brackets is at least 1 after every
\* consumed character that does not make check_abstract return; the test
\* nb_brackets <= 0 succeeds only on a character `}`, and at a found return
\* of brace mode the last character consumed is `}` and the counter is 0.
C15_BraceCounter ==
  BraceMode =>
    /\ Closed(frame.nb_brackets) => (frame.char = "}" /\ frame.end # -1)
    /\ IF frame.end = -1
       THEN frame.nb_brackets >= 1
       ELSE /\ pc = "abstract_ret"
            /\ frame.char = "}"
            /\ tex_contents[frame.index] = "}"
            /\ frame.nb_brackets = 0
            /\ ret = << TRUE, frame.start, frame.index >>

\* A found return of brace mode after an inner `}` that left the counter
\* positive.
C15_Witness ==
  /\ BraceMode
  /\ pc = "abstract_ret"
  /\ ret[1] = TRUE
  /\ \E j \in frame.start + Len(AbstractBrace) + 1 .. frame.index - 1 :
       tex_contents[j] = "}"

====
